---- MODULE Spec2Model ----
(***************************************************************************)
(* Argument validation, source-set construction and backend dispatch of    *)
(* python/cugraph/centrality/betweenness_centrality.py.                    *)
(*                                                                         *)
(* The state is the graph handed to the entry points, the process-global   *)
(* random generator of Python's `random` module, and the outcome of the    *)
(* call the caller is looking at (the exception raised, or the arguments   *)
(* the backend wrapper was invoked with).                                  *)
(***************************************************************************)
EXTENDS Integers, Sequences, FiniteSets

VARIABLES G, rng, call, memo

vars == <<G, rng, call, memo>>

(***************************************************************************)
(* Bounds of the model.                                                    *)
(***************************************************************************)
MaxN == 2       \* largest number of vertices of a graph
MaxLen == 2     \* longest caller-supplied identifier list
MaxId == 1      \* external vertex identifiers are 0..MaxId
MaxSeed == 1    \* explicit seeds are 0..MaxSeed
RngMod == 2     \* number of states of the random generator

Ids == 0..MaxId
RngStates == 0..(RngMod - 1)

(***************************************************************************)
(* Python values.  k is None, an int, a list of identifiers, or a value of *)
(* some other type (a tuple), which neither isinstance test accepts.       *)
(***************************************************************************)
NoneK == [type |-> "NoneType", int |-> 0, list |-> <<>>]
IntK(i) == [type |-> "int", int |-> i, list |-> <<>>]
ListK(l) == [type |-> "list", int |-> 0, list |-> l]
TupleK == [type |-> "tuple", int |-> 0, list |-> <<0>>]

SeqsUpTo(S, n) == UNION {[1..m -> S] : m \in 0..n}

KValues ==
    {NoneK, TupleK}
        \cup {IntK(i) : i \in (0 - 1)..(MaxN + 1)}
        \cup {ListK(l) : l \in SeqsUpTo(Ids, MaxLen)}

NoneSeed == [is_none |-> TRUE, val |-> 0]
IntSeed(s) == [is_none |-> FALSE, val |-> s]
SeedValues == {NoneSeed} \cup {IntSeed(s) : s \in 0..MaxSeed}

Implementations == {"None", "default", "gunrock", "other"}
Weights == {"None", "weights"}
ResultDtypes == {"float32", "float64", "int32"}

NoneVertices == [is_none |-> TRUE, seq |-> <<>>]
ListVertices(s) == [is_none |-> FALSE, seq |-> s]

NoError == [exc |-> "None", at |-> "None"]
Raise(exc, at) == [exc |-> exc, at |-> at]

(***************************************************************************)
(* Graphs.  A renumbered graph carries renumber_map, whose entry at        *)
(* internal index i is the external identifier of vertex i; the map holds  *)
(* each identifier once.                                                   *)
(***************************************************************************)
RenumberMaps(n) ==
    {m \in [1..n -> Ids] : \A i, j \in 1..n : m[i] = m[j] => i = j}

Graphs ==
    {[number_of_vertices |-> n, renumbered |-> FALSE, renumber_map |-> <<>>] :
        n \in 0..MaxN}
        \cup {[number_of_vertices |-> Len(m), renumbered |-> TRUE,
               renumber_map |-> m] :
                 m \in UNION {RenumberMaps(n) : n \in 0..MaxN}}

(***************************************************************************)
(* The `random` module: one generator state for the whole process.         *)
(***************************************************************************)
\* The entropy random.seed can draw: it reads the system's only for None.
Entropy(seed) == IF seed.is_none THEN RngStates ELSE {0}

\* random.seed(seed): None draws the state from the system's entropy.
random_seed(seed, entropy) ==
    IF seed.is_none THEN entropy ELSE seed.val % RngMod

\* One draw below n; the generator advances.
randbelow(r, n) == [val |-> r % n, rng |-> (r + 1) % RngMod]

\* Mutant: a selection loop that leaves the drawn element in the pool.
RECURSIVE sample_pool_no_swap(_, _, _, _, _)
sample_pool_no_swap(r, pool, n, k, i) ==
    IF i = k
    THEN [vertices |-> <<>>, rng |-> r]
    ELSE LET d == randbelow(r, n - i)
             j == d.val + 1
             rest == sample_pool_no_swap(d.rng, pool, n, k, i + 1)
         IN  [vertices |-> <<pool[j]>> \o rest.vertices, rng |-> rest.rng]

\* The selection loop of random.sample over a pool of the population.
RECURSIVE sample_pool(_, _, _, _, _)
sample_pool(r, pool, n, k, i) ==
    IF i = k
    THEN [vertices |-> <<>>, rng |-> r]
    ELSE LET d == randbelow(r, n - i)
             j == d.val + 1
             rest == sample_pool(d.rng, [pool EXCEPT ![j] = pool[n - i]],
                                 n, k, i + 1)
         IN  [vertices |-> <<pool[j]>> \o rest.vertices, rng |-> rest.rng]

\* Mutant: random.sample drawing with replacement.
random_sample_with_replacement(r, n, k) ==
    IF k < 0 \/ k > n
    THEN [err |-> Raise("ValueError", "sample"), vertices |-> <<>>, rng |-> r]
    ELSE LET s == sample_pool_no_swap(r, [i \in 1..n |-> i - 1], n, k, 0)
         IN  [err |-> NoError, vertices |-> s.vertices, rng |-> s.rng]

\* random.sample(range(n), k)
random_sample(r, n, k) ==
    IF k < 0 \/ k > n
    THEN [err |-> Raise("ValueError", "sample"), vertices |-> <<>>, rng |-> r]
    ELSE LET s == sample_pool(r, [i \in 1..n |-> i - 1], n, k, 0)
         IN  [err |-> NoError, vertices |-> s.vertices, rng |-> s.rng]

(***************************************************************************)
(* Internal functions.                                                     *)
(***************************************************************************)
\* Mutant: the gunrock/sampling combination is let through.
verify_implementation_without_sampling_check(implementation, k) ==
    LET impl == IF implementation = "None" THEN "default" ELSE implementation
    IN  IF impl \notin {"default", "gunrock"}
        THEN [err |-> Raise("ValueError", "implementation"),
              implementation |-> impl]
        ELSE [err |-> NoError, implementation |-> impl]

\* Mutant: unknown implementation names are let through.
verify_implementation_without_name_check(implementation, k) ==
    LET impl == IF implementation = "None" THEN "default" ELSE implementation
    IN  IF impl = "gunrock" /\ k # NoneK
        THEN [err |-> Raise("ValueError", "gunrock_sampling"),
              implementation |-> impl]
        ELSE [err |-> NoError, implementation |-> impl]

initialize_and_verify_implementation(implementation, k) ==
    LET impl == IF implementation = "None" THEN "default" ELSE implementation
    IN  IF impl \notin {"default", "gunrock"}
        THEN [err |-> Raise("ValueError", "implementation"),
              implementation |-> impl]
        ELSE IF impl = "gunrock" /\ k # NoneK
        THEN [err |-> Raise("ValueError", "gunrock_sampling"),
              implementation |-> impl]
        ELSE [err |-> NoError, implementation |-> impl]

\* Mutant: the generator is not seeded before sampling.
sampling_without_seed(g, k, seed, r, entropy) ==
    LET s == random_sample(r, g.number_of_vertices, k)
    IN  [err |-> s.err,
         vertices |-> IF s.err = NoError THEN ListVertices(s.vertices)
                      ELSE NoneVertices,
         rng |-> s.rng]

initialize_vertices_from_indices_sampling(g, k, seed, r, entropy) ==
    LET s == random_sample(random_seed(seed, entropy), g.number_of_vertices, k)
    IN  [err |-> s.err,
         vertices |-> IF s.err = NoError THEN ListVertices(s.vertices)
                      ELSE NoneVertices,
         rng |-> s.rng]

\* Mutant: the position counted from one instead of the index.
first_position(map, vert) ==
    CHOOSE i \in DOMAIN map :
        map[i] = vert /\ \A j \in DOMAIN map : j < i => map[j] # vert

\* renumber_map[renumber_map == vert].index[0]
first_index(map, vert) ==
    (CHOOSE i \in DOMAIN map :
        map[i] = vert /\ \A j \in DOMAIN map : j < i => map[j] # vert) - 1

initialize_vertices_from_identifiers_list(g, identifiers) ==
    IF g.renumbered
    THEN IF \E p \in DOMAIN identifiers :
               \A i \in DOMAIN g.renumber_map :
                   g.renumber_map[i] # identifiers[p]
         THEN [err |-> Raise("IndexError", "renumber_map"),
               vertices |-> NoneVertices, k |-> ListK(identifiers)]
         ELSE LET vertices == [p \in DOMAIN identifiers |->
                                  first_index(g.renumber_map, identifiers[p])]
              IN  [err |-> NoError, vertices |-> ListVertices(vertices),
                   k |-> IntK(Len(vertices))]
    ELSE [err |-> NoError, vertices |-> ListVertices(identifiers),
          k |-> IntK(Len(identifiers))]

\* Mutant: random.seed(seed) runs before k is inspected.
initialize_vertices_always_seeding(g, k, seed, r, entropy) ==
    IF k.type = "int"
    THEN LET s == initialize_vertices_from_indices_sampling(g, k.int, seed,
                                                            r, entropy)
         IN  [err |-> s.err, vertices |-> s.vertices, k |-> k, rng |-> s.rng,
              reseeded |-> TRUE, sampled |-> TRUE, translated |-> FALSE]
    ELSE IF k.type = "list"
    THEN LET t == initialize_vertices_from_identifiers_list(g, k.list)
         IN  [err |-> t.err, vertices |-> t.vertices, k |-> t.k,
              rng |-> random_seed(seed, entropy),
              reseeded |-> TRUE, sampled |-> FALSE, translated |-> TRUE]
    ELSE [err |-> NoError, vertices |-> NoneVertices, k |-> k,
          rng |-> random_seed(seed, entropy),
          reseeded |-> TRUE, sampled |-> FALSE, translated |-> FALSE]

initialize_vertices(g, k, seed, r, entropy) ==
    IF k.type = "int"
    THEN LET s == initialize_vertices_from_indices_sampling(g, k.int, seed,
                                                            r, entropy)
         IN  [err |-> s.err, vertices |-> s.vertices, k |-> k, rng |-> s.rng,
              reseeded |-> TRUE, sampled |-> TRUE, translated |-> FALSE]
    ELSE IF k.type = "list"
    THEN LET t == initialize_vertices_from_identifiers_list(g, k.list)
         IN  [err |-> t.err, vertices |-> t.vertices, k |-> t.k, rng |-> r,
              reseeded |-> FALSE, sampled |-> FALSE, translated |-> TRUE]
    ELSE [err |-> NoError, vertices |-> NoneVertices, k |-> k, rng |-> r,
          reseeded |-> FALSE, sampled |-> FALSE, translated |-> FALSE]

(***************************************************************************)
(* Outcome of a call: the exception raised, what ran before it, and the    *)
(* arguments of the backend wrapper when it was invoked.                   *)
(***************************************************************************)
Idle == [status |-> "idle"]

Outcome(entry, args, r, err, v, invoked, backend) ==
    [status |-> "done", entry |-> entry, args |-> args, rng_before |-> r,
     err |-> err, vertices |-> v.vertices, reseeded |-> v.reseeded,
     sampled |-> v.sampled, translated |-> v.translated,
     invoked |-> invoked, backend |-> backend]

NotStarted(k, r) ==
    [err |-> NoError, vertices |-> NoneVertices, k |-> k, rng |-> r,
     reseeded |-> FALSE, sampled |-> FALSE, translated |-> FALSE]

NoBackend == [invoked |-> FALSE]

\* Mutant: the weight check placed before the endpoints check.
feature_checks_weight_first(endpoints, weight, result_dtype) ==
    IF weight # "None"
    THEN Raise("NotImplementedError", "weight")
    ELSE IF endpoints
    THEN Raise("NotImplementedError", "endpoints")
    ELSE IF result_dtype \notin {"float32", "float64"}
    THEN Raise("TypeError", "result_dtype")
    ELSE NoError

\* The feature checks of betweenness_centrality, in the order written.
feature_checks(endpoints, weight, result_dtype) ==
    IF endpoints
    THEN Raise("NotImplementedError", "endpoints")
    ELSE IF weight # "None"
    THEN Raise("NotImplementedError", "weight")
    ELSE IF result_dtype \notin {"float32", "float64"}
    THEN Raise("TypeError", "result_dtype")
    ELSE NoError

\* The feature checks of edge_betweenness_centrality.
edge_feature_checks(weight, result_dtype) ==
    IF weight # "None"
    THEN Raise("NotImplementedError", "weight")
    ELSE IF result_dtype \notin {"float32", "float64"}
    THEN Raise("TypeError", "result_dtype")
    ELSE NoError

betweenness_centrality(g, k, normalized, weight, endpoints, implementation, seed, result_dtype, r, entropy) ==
    LET args == [k |-> k, normalized |-> normalized, weight |-> weight,
                 endpoints |-> endpoints, implementation |-> implementation,
                 seed |-> seed, result_dtype |-> result_dtype]
        entry == "betweenness_centrality"
        i == initialize_and_verify_implementation(implementation, k)
        v == initialize_vertices(g, k, seed, r, entropy)
        f == feature_checks(endpoints, weight, result_dtype)
    IN  IF i.err # NoError
        THEN [call |-> Outcome(entry, args, r, i.err, NotStarted(k, r),
                               FALSE, NoBackend),
              rng |-> r]
        ELSE IF v.err # NoError
        THEN [call |-> Outcome(entry, args, r, v.err, v, FALSE, NoBackend),
              rng |-> v.rng]
        ELSE IF f # NoError
        THEN [call |-> Outcome(entry, args, r, f, v, FALSE, NoBackend),
              rng |-> v.rng]
        ELSE [call |-> Outcome(entry, args, r, NoError, v, TRUE,
                               [normalized |-> normalized,
                                endpoints |-> endpoints, weight |-> weight,
                                k |-> v.k, vertices |-> v.vertices,
                                implementation |-> i.implementation,
                                result_dtype |-> result_dtype]),
              rng |-> v.rng]

edge_betweenness_centrality(g, k, normalized, weight, seed, result_dtype, r, entropy) ==
    LET args == [k |-> k, normalized |-> normalized, weight |-> weight,
                 seed |-> seed, result_dtype |-> result_dtype]
        entry == "edge_betweenness_centrality"
        v == initialize_vertices(g, k, seed, r, entropy)
        f == edge_feature_checks(weight, result_dtype)
    IN  IF v.err # NoError
        THEN [call |-> Outcome(entry, args, r, v.err, v, FALSE, NoBackend),
              rng |-> v.rng]
        ELSE IF f # NoError
        THEN [call |-> Outcome(entry, args, r, f, v, FALSE, NoBackend),
              rng |-> v.rng]
        ELSE [call |-> Outcome(entry, args, r, NoError, v, TRUE,
                               [normalized |-> normalized, weight |-> weight,
                                k |-> v.k, vertices |-> v.vertices,
                                result_dtype |-> result_dtype]),
              rng |-> v.rng]

(***************************************************************************)
(* The state machine.                                                      *)
(***************************************************************************)
Init ==
    /\ G \in Graphs
    /\ rng \in RngStates
    /\ call = Idle
    /\ memo = Idle

\* A caller invokes betweenness_centrality on G.
BetweennessCentrality ==
    /\ call = Idle
    /\ \E k \in KValues, normalized \in BOOLEAN, weight \in Weights,
          endpoints \in BOOLEAN, implementation \in Implementations,
          seed \in SeedValues, result_dtype \in ResultDtypes :
          \E entropy \in Entropy(seed) :
          LET res == betweenness_centrality(G, k, normalized, weight,
                                            endpoints, implementation, seed,
                                            result_dtype, rng, entropy)
          IN  /\ call' = res.call
              /\ rng' = res.rng
    /\ UNCHANGED <<G, memo>>

\* A caller invokes edge_betweenness_centrality on G.
EdgeBetweennessCentrality ==
    /\ call = Idle
    /\ \E k \in KValues, normalized \in BOOLEAN, weight \in Weights,
          seed \in SeedValues, result_dtype \in ResultDtypes :
          \E entropy \in Entropy(seed) :
          LET res == edge_betweenness_centrality(G, k, normalized, weight,
                                                 seed, result_dtype, rng,
                                                 entropy)
          IN  /\ call' = res.call
              /\ rng' = res.rng
    /\ UNCHANGED <<G, memo>>

\* The caller has seen the result table or the exception.
Return ==
    /\ call # Idle
    /\ call' = Idle
    /\ UNCHANGED <<G, rng, memo>>

\* Other code of the process draws from the global generator.
OtherRandomUse ==
    /\ call = Idle
    /\ rng' = randbelow(rng, 1).rng
    /\ UNCHANGED <<G, call, memo>>

Next ==
    \/ BetweennessCentrality
    \/ EdgeBetweennessCentrality
    \/ Return
    \/ OtherRandomUse

Spec == Init /\ [][Next]_vars

(***************************************************************************)
(* The sampler on its own: _initialize_vertices_from_indices_sampling run  *)
(* any number of times, with other draws from the generator in between.    *)
(* memo keeps the first run made with an explicit seed.                    *)
(***************************************************************************)
IndicesSampling ==
    /\ call = Idle
    /\ \E k \in (0 - 1)..(MaxN + 1), seed \in SeedValues :
          \E entropy \in Entropy(seed) :
          LET s == initialize_vertices_from_indices_sampling(G, k, seed, rng,
                                                             entropy)
              run == [status |-> "sampled", k |-> k, seed |-> seed,
                      err |-> s.err, vertices |-> s.vertices,
                      rng_before |-> rng]
          IN  /\ call' = run
              /\ rng' = s.rng
              /\ memo' = IF memo = Idle /\ ~seed.is_none THEN run ELSE memo
    /\ UNCHANGED G

NextSampler ==
    \/ IndicesSampling
    \/ Return
    \/ OtherRandomUse

SpecSampler == Init /\ [][NextSampler]_vars

(***************************************************************************)
(* Properties.                                                             *)
(***************************************************************************)
Done == call.status = "done"
IsBC == Done /\ call.entry = "betweenness_centrality"

Distinct(s) == \A p, q \in DOMAIN s : s[p] = s[q] => p = q

\* C1: a betweenness_centrality call with implementation "gunrock" and a
\* non-None k raises ValueError before anything ran: no sampling, no
\* translation, the global generator untouched, the backend not invoked.
C1_GunrockSamplingRejected ==
    (/\ IsBC
     /\ call.args.implementation = "gunrock"
     /\ call.args.k # NoneK)
        => (/\ call.err.exc = "ValueError"
            /\ ~call.sampled
            /\ ~call.translated
            /\ ~call.reseeded
            /\ call.vertices = NoneVertices
            /\ rng = call.rng_before
            /\ ~call.invoked)

C1_Witness ==
    /\ IsBC
    /\ call.args.implementation = "gunrock"
    /\ call.args.k.type = "list"
    /\ call.err = Raise("ValueError", "gunrock_sampling")

\* The checks the validation order is about, as predicates of the arguments.
UnknownImplementation(a) ==
    a.implementation \notin {"None", "default", "gunrock"}
GunrockSampling(a) == a.implementation = "gunrock" /\ a.k # NoneK
SampleOutOfRange(a) ==
    a.k.type = "int" /\ (a.k.int < 0 \/ a.k.int > G.number_of_vertices)
IdentifierMissing(a) ==
    /\ a.k.type = "list"
    /\ G.renumbered
    /\ \E p \in DOMAIN a.k.list :
          \A i \in DOMAIN G.renumber_map : G.renumber_map[i] # a.k.list[p]
BadDtype(a) == a.result_dtype \notin {"float32", "float64"}

Violations(a) ==
    {c \in {"implementation", "endpoints", "weight", "result_dtype",
            "gunrock_sampling"} :
        \/ c = "implementation" /\ UnknownImplementation(a)
        \/ c = "endpoints" /\ a.endpoints
        \/ c = "weight" /\ a.weight # "None"
        \/ c = "result_dtype" /\ BadDtype(a)
        \/ c = "gunrock_sampling" /\ GunrockSampling(a)}

\* C2 as stated: with more than one check violated, the error is that of
\* the earliest in the order implementation, endpoints, weight, result
\* precision, gunrock+sampling.
C2_StatedOrder ==
    (IsBC /\ Cardinality(Violations(call.args)) > 1)
        => call.err.at =
             (IF UnknownImplementation(call.args) THEN "implementation"
              ELSE IF call.args.endpoints THEN "endpoints"
              ELSE IF call.args.weight # "None" THEN "weight"
              ELSE IF BadDtype(call.args) THEN "result_dtype"
              ELSE "gunrock_sampling")

\* C2 (amended): the error of a betweenness_centrality call is that of the
\* earliest failing step in the order implementation name, gunrock+sampling,
\* source set (sample size out of range, identifier not found), endpoints,
\* weight, result precision; no step failing, no error.
C2_CodeOrder ==
    IsBC
        => call.err.at =
             (IF UnknownImplementation(call.args) THEN "implementation"
              ELSE IF GunrockSampling(call.args) THEN "gunrock_sampling"
              ELSE IF SampleOutOfRange(call.args) THEN "sample"
              ELSE IF IdentifierMissing(call.args) THEN "renumber_map"
              ELSE IF call.args.endpoints THEN "endpoints"
              ELSE IF call.args.weight # "None" THEN "weight"
              ELSE IF BadDtype(call.args) THEN "result_dtype"
              ELSE "None")

C2_Witness ==
    /\ IsBC
    /\ call.args.endpoints
    /\ call.args.weight # "None"
    /\ GunrockSampling(call.args)
    /\ call.err = Raise("ValueError", "gunrock_sampling")

\* C3: a call of either entry point that ends in a validation error has
\* produced no source set (no sampling, no reseeding, no translation) and
\* has not invoked the backend.
C3_FailFast ==
    (Done /\ call.err.at \in {"implementation", "gunrock_sampling",
                              "endpoints", "weight", "result_dtype"})
        => (/\ ~call.sampled
            /\ ~call.reseeded
            /\ ~call.translated
            /\ call.vertices = NoneVertices
            /\ rng = call.rng_before
            /\ ~call.invoked)

\* C4: sampling by count.  With 0 <= k <= N the sampler returns k pairwise
\* distinct indices of 0..N-1, renumbered graph or not; with k < 0 or k > N
\* the call raises ValueError and the backend is not invoked.
C4_SamplingByCount ==
    (Done /\ call.args.k.type = "int")
        => LET n == G.number_of_vertices
               k == call.args.k.int
           IN  /\ (k < 0 \/ k > n)
                    => call.err.exc = "ValueError" /\ ~call.invoked
               /\ (0 <= k /\ k <= n /\ call.sampled)
                    => (/\ ~call.vertices.is_none
                        /\ Len(call.vertices.seq) = k
                        /\ Distinct(call.vertices.seq)
                        /\ \A p \in DOMAIN call.vertices.seq :
                              call.vertices.seq[p] \in 0..(n - 1))

C4_Witness ==
    /\ Done
    /\ call.sampled
    /\ G.renumbered
    /\ call.args.k = IntK(2)
    /\ call.vertices = ListVertices(<<1, 0>>)
    /\ call.invoked

\* C5: translation of an identifier list.  Not renumbered: the source set is
\* the list.  Renumbered with every identifier in the map: same length, and
\* element p is the first internal index whose map entry is identifier p.
\* The backend gets k = len(list).  An identifier missing from the map
\* makes the lookup fail and the backend is not invoked.
C5_IdentifierTranslation ==
    (Done /\ call.translated)
        => LET ids == call.args.k.list
               map == G.renumber_map
               v == call.vertices.seq
           IN  /\ ~G.renumbered => call.vertices = ListVertices(ids)
               /\ (G.renumbered /\ ~IdentifierMissing(call.args))
                    => (/\ ~call.vertices.is_none
                        /\ Len(v) = Len(ids)
                        /\ \A p \in DOMAIN ids :
                              /\ v[p] + 1 \in DOMAIN map
                              /\ map[v[p] + 1] = ids[p]
                              /\ \A j \in 1..v[p] : map[j] # ids[p])
               /\ call.invoked => call.backend.k = IntK(Len(ids))
               /\ IdentifierMissing(call.args)
                    => call.err.exc = "IndexError" /\ ~call.invoked

C5_Witness ==
    /\ Done
    /\ call.translated
    /\ G.renumber_map = <<1, 0>>
    /\ call.args.k = ListK(<<0, 1>>)
    /\ call.vertices = ListVertices(<<1, 0>>)
    /\ call.invoked
    /\ call.backend.k = IntK(2)

\* C6: two runs of the sampler with the same explicit seed, the same N and
\* the same k give the same sample, whatever ran before or between them.
C6_SeedDeterminism ==
    (/\ call.status = "sampled"
     /\ memo # Idle
     /\ call.seed = memo.seed
     /\ call.k = memo.k)
        => call.vertices = memo.vertices /\ call.err = memo.err

C6_Witness ==
    /\ call.status = "sampled"
    /\ memo # Idle
    /\ call.seed = memo.seed
    /\ call.k = memo.k
    /\ call.k = 2
    /\ call.rng_before # memo.rng_before
    /\ call.vertices = memo.vertices
    /\ Len(call.vertices.seq) = 2

\* C7: betweenness_centrality never invokes the backend with implementation
\* "gunrock" together with result_dtype float64.
C7_DoubleSwitchesToDefault ==
    (IsBC /\ call.invoked)
        => ~(/\ call.backend.implementation = "gunrock"
             /\ call.backend.result_dtype = "float64")

\* C8: implementation None resolves to "default", a name other than None,
\* "default" and "gunrock" raises ValueError whatever the other arguments,
\* and the backend only ever gets "default" or "gunrock".
C8_ImplementationSelection ==
    IsBC
        => (/\ UnknownImplementation(call.args)
                 => (/\ call.err = Raise("ValueError", "implementation")
                     /\ ~call.invoked)
            /\ ~UnknownImplementation(call.args)
                 => call.err.at # "implementation"
            /\ call.invoked
                 => call.backend.implementation \in {"default", "gunrock"}
            /\ (call.invoked /\ call.args.implementation = "None")
                 => call.backend.implementation = "default")

C8_Witness ==
    /\ IsBC
    /\ call.invoked
    /\ call.args.implementation = "None"
    /\ call.backend.implementation = "default"

\* The call c made again from generator state r with seed s.
Rerun(c, s, r, e) ==
    IF c.entry = "betweenness_centrality"
    THEN betweenness_centrality(G, c.args.k, c.args.normalized, c.args.weight,
                                c.args.endpoints, c.args.implementation, s,
                                c.args.result_dtype, r, e).call
    ELSE edge_betweenness_centrality(G, c.args.k, c.args.normalized,
                                     c.args.weight, s, c.args.result_dtype,
                                     r, e).call

\* What a call did, apart from the arguments it was given.
View(c) ==
    [err |-> c.err, vertices |-> c.vertices, invoked |-> c.invoked,
     backend |-> c.backend]

\* C9: with k None or a list the seed is ignored: the call leaves the
\* global generator as it was, and it raises the same error, builds the
\* same source set and hands the backend the same arguments as the same
\* call made with seed None; so any two seeds give the same.
C9_SeedIgnored ==
    (Done /\ call.args.k.type \in {"NoneType", "list"})
        => (/\ rng = call.rng_before
            /\ \A e \in Entropy(NoneSeed) :
                  View(Rerun(call, NoneSeed, call.rng_before, e)) = View(call))

C9_Witness ==
    /\ Done
    /\ call.args.k.type = "list"
    /\ ~call.args.seed.is_none
    /\ call.invoked
    /\ rng = call.rng_before

\* C10: whenever the backend is invoked, either k is None and vertices is
\* None, or vertices is a sequence and k is an integer with
\* k = len(vertices) and k <= number of vertices.
C10_SourceSetConsistency ==
    (Done /\ call.invoked)
        => \/ call.backend.k = NoneK /\ call.backend.vertices.is_none
           \/ /\ ~call.backend.vertices.is_none
              /\ call.backend.k.type = "int"
              /\ call.backend.k.int = Len(call.backend.vertices.seq)
              /\ call.backend.k.int <= G.number_of_vertices

====
